---- MODULE Spec2Model ----
(***************************************************************************)
(* Model of the asynchronous self-logging subsystem of the Log Query       *)
(* System backend (backend/logger.py, backend/loki_client.py,              *)
(* backend/config.py).                                                     *)
(*                                                                         *)
(* Text is modelled as a sequence of chunks; text that the program parses  *)
(* or converts (label strings, level names) is spelled one character per   *)
(* chunk, so that split(':', 1), lower() and upper() are computed.         *)
(* A label mapping (a Python dict) is a function from key text to value    *)
(* text.  The caller-owned dicts live in the heap "dicts" and are passed   *)
(* by reference; None is the absent argument.                              *)
(***************************************************************************)
EXTENDS Integers, Sequences, FiniteSets, TLC

VARIABLES
    default_labels,   \* LokiLogger.default_labels
    dicts,            \* heap: the label dicts owned by the callers
    caller,           \* per calling thread: position, current unit, last result
    units,            \* the background units (threads running push_task)
    calls,            \* history: the logging calls, in call order
    push_calls,       \* history: the invocations of push_log, in order
    local_log,        \* history: the method calls on local_logger, in order
    local_out,        \* history: the records local_logger lets through
    config,           \* backend.config.config
    alive,            \* the process has not exited
    pushed,           \* history: the direct runs of push_log
    handled,          \* history: the REST requests handled
    queried           \* history: the direct runs of query_logs

vars == <<default_labels, dicts, caller, units, calls, push_calls, local_log,
          local_out, config, alive, pushed, handled, queried>>

\* what the logger and its units never write
envVars == <<config, alive, pushed, handled, queried>>

------------------------------------------------------------------------------
(* Bounds *)

MaxCalls == 2

MaxTextLen == 3

Callers == {"c1", "c2"}

Messages == {<<>>, <<"m">>}

------------------------------------------------------------------------------
(* Text helpers *)

UpperAlpha == <<"A","B","C","D","E","F","G","H","I","J","K","L","M",
                "N","O","P","Q","R","S","T","U","V","W","X","Y","Z">>

LowerAlpha == <<"a","b","c","d","e","f","g","h","i","j","k","l","m",
                "n","o","p","q","r","s","t","u","v","w","x","y","z">>

LowerChar(ch) ==
    IF \E i \in 1..26 : UpperAlpha[i] = ch
    THEN LowerAlpha[CHOOSE i \in 1..26 : UpperAlpha[i] = ch]
    ELSE ch

UpperChar(ch) ==
    IF \E i \in 1..26 : LowerAlpha[i] = ch
    THEN UpperAlpha[CHOOSE i \in 1..26 : LowerAlpha[i] = ch]
    ELSE ch

\* str.lower()
Lower(s) == [i \in 1..Len(s) |-> LowerChar(s[i])]

\* str.upper()
Upper(s) == [i \in 1..Len(s) |-> UpperChar(s[i])]

\* ch in s
Contains(s, ch) == \E i \in 1..Len(s) : s[i] = ch

FirstIndex(s, ch) ==
    CHOOSE i \in 1..Len(s) : s[i] = ch /\ \A j \in 1..(i-1) : s[j] # ch

LastIndex(s, ch) ==
    CHOOSE i \in 1..Len(s) : s[i] = ch /\ \A j \in (i+1)..Len(s) : s[j] # ch

\* s.rsplit(ch, 1) for a text that contains ch
SplitLast(s, ch) ==
    <<SubSeq(s, 1, LastIndex(s, ch) - 1),
      SubSeq(s, LastIndex(s, ch) + 1, Len(s))>>

\* s.split(ch, 1) for a text that contains ch
SplitFirst(s, ch) ==
    <<SubSeq(s, 1, FirstIndex(s, ch) - 1),
      SubSeq(s, FirstIndex(s, ch) + 1, Len(s))>>

------------------------------------------------------------------------------
(* Configuration and names *)

\* config.DEFAULT_LABEL = 'app:main'
DEFAULT_LABEL == <<"a","p","p",":","m","a","i","n">>

\* config.LOG_LEVEL when the environment does not set it
LOG_LEVEL == <<"I","N","F","O">>

DefaultConfig == [DEFAULT_LABEL |-> DEFAULT_LABEL, LOG_LEVEL |-> LOG_LEVEL]

None == "None"

\* the four logging operations of LokiLogger, by name
debug == <<"d","e","b","u","g">>

info == <<"i","n","f","o">>

warning == <<"w","a","r","n","i","n","g">>

error == <<"e","r","r","o","r">>

Ops == {debug, info, warning, error}

\* variant: warning() written by copying info() and keeping its level literal
LevelOfCopied(op) ==
    CASE op = debug   -> <<"D","E","B","U","G">>
      [] op = info    -> <<"I","N","F","O">>
      [] op = warning -> <<"I","N","F","O">>
      [] op = error   -> <<"E","R","R","O","R">>

\* the level literal each operation passes to _push_to_loki_async
LevelOf(op) ==
    CASE op = debug   -> <<"D","E","B","U","G">>
      [] op = info    -> <<"I","N","F","O">>
      [] op = warning -> <<"W","A","R","N","I","N","G">>
      [] op = error   -> <<"E","R","R","O","R">>

\* the per-severity entry points of logging.Logger reachable by getattr
LocalLoggerMethods ==
    {debug, info, warning, error,
     <<"c","r","i","t","i","c","a","l">>}

\* the label dicts the callers own, at the start
InitialDicts ==
    [r \in {"d0", "d1"} |->
        IF r = "d0" THEN <<>>
        ELSE <<"e","n","v">> :> <<"t">>]

LabelArgs == {None} \cup DOMAIN InitialDicts

\* what the transport call can do once it has been entered
Outcomes == {"ok", "LokiClientError", "other"}

\* str(e) of the LokiClientError raised by push_log
ErrorText == <<"Failed to push log to Loki: ", "cause">>

------------------------------------------------------------------------------
(* LokiLogger *)

\* variant: the configured text is split on its last ':'
parse_default_labelLast(cfg) ==
    IF Contains(cfg, ":")
    THEN SplitLast(cfg, ":")[1] :> SplitLast(cfg, ":")[2]
    ELSE <<"l","a","b","e","l">> :> cfg

\* LokiLogger._parse_default_label, for the configured text cfg
parse_default_label(cfg) ==
    IF Contains(cfg, ":")
    THEN SplitFirst(cfg, ":")[1] :> SplitFirst(cfg, ":")[2]
    ELSE <<"l","a","b","e","l">> :> cfg

\* variant: the explicit labels are merged into the default labels
LogLabelsMerged(labels) ==
    IF labels # None THEN dicts[labels] @@ default_labels ELSE default_labels

\* push_task: log_labels = labels if labels is not None else self.default_labels
LogLabels(labels) ==
    IF labels # None THEN dicts[labels] ELSE default_labels

\* variant: the record is kept on the logger object, so a unit reads the
\* arguments of the latest call
ClosureShared(u) ==
    [message |-> units[Len(units)].message, level |-> units[Len(units)].level,
     labels |-> units[Len(units)].labels]

\* the variables push_task closes over: the arguments of its own call
Closure(u) ==
    [message |-> units[u].message, level |-> units[u].level,
     labels |-> units[u].labels]

\* a thread is named by its kind, the number of its unit and its caller
CallerThread(c) == <<"caller", 0, c>>

\* variant: push_task() is called directly, on the caller's thread
ThreadOfInline(c, u) == CallerThread(c)

\* variant: every unit is handed to one worker thread
ThreadOfWorker(c, u) == <<"worker", 0, "-">>

\* threading.Thread(target=push_task, daemon=True): the unit gets its own thread
ThreadOf(c, u) == <<"unit", u, "-">>

\* variant: push_task catches every exception of push_log
push_task_nextCatchAll(pc, outcome) ==
    CASE pc = "start" -> "push"
      [] pc = "push" /\ outcome = "ok" -> "done"
      [] pc = "push" /\ outcome = "LokiClientError" -> "warn"
      [] pc = "push" /\ outcome = "other" -> "warn"
      [] pc = "warn" -> "fallback"
      [] pc = "fallback" -> "done"

\* variant: a failed delivery is tried again
push_task_nextRetry(pc, outcome) ==
    CASE pc = "start" -> "push"
      [] pc = "push" /\ outcome = "ok" -> "done"
      [] pc = "push" /\ outcome = "LokiClientError" -> "start"
      [] pc = "push" /\ outcome = "other" -> "crashed"
      [] pc = "warn" -> "fallback"
      [] pc = "fallback" -> "done"

\* control flow of push_task
push_task_next(pc, outcome) ==
    CASE pc = "start" -> "push"
      [] pc = "push" /\ outcome = "ok" -> "done"
      [] pc = "push" /\ outcome = "LokiClientError" -> "warn"
      [] pc = "push" /\ outcome = "other" -> "crashed"
      [] pc = "warn" -> "fallback"
      [] pc = "fallback" -> "done"

\* f"Failed to push log to Loki, logged locally: {str(e)}"
WarningText(e) == <<"Failed to push log to Loki, logged locally: ">> \o e

\* variant: the attribute is looked up without lower()
log_methodNoLower(level) ==
    IF level \in LocalLoggerMethods THEN level ELSE info

\* getattr(local_logger, level.lower(), local_logger.info)
log_method(level) ==
    IF Lower(level) \in LocalLoggerMethods THEN Lower(level) ELSE info

Finished(u) == units[u].pc \in {"done", "crashed"}

\* thread.start(): a thread runs one target at a time, so a unit runs once
\* everything started earlier on the same thread has finished
ThreadFree(u) ==
    \A v \in DOMAIN units :
        (v < u /\ units[v].thread = units[u].thread) => Finished(v)

\* variant: thread.join() after thread.start()
CallerMayReturnJoin(c) == Finished(caller[c].unit)

\* the caller gets control back when nothing runs on its own thread
CallerMayReturn(c) ==
    \A u \in DOMAIN units : units[u].thread = CallerThread(c) => Finished(u)

------------------------------------------------------------------------------
(* Initial state: the module-level logger = LokiLogger() *)

Init ==
    /\ default_labels = parse_default_label(DEFAULT_LABEL)
    /\ dicts = InitialDicts
    /\ caller = [c \in Callers |-> [pc |-> "idle", unit |-> 0, result |-> "-"]]
    /\ units = <<>>
    /\ calls = <<>>
    /\ push_calls = <<>>
    /\ local_log = <<>>
    /\ local_out = <<>>
    /\ config = DefaultConfig
    /\ alive = TRUE
    /\ pushed = <<>>
    /\ handled = <<>>
    /\ queried = <<>>

------------------------------------------------------------------------------
(* Actions *)

\* _push_to_loki_async up to and including thread.start()
push_to_loki_async(c, op, message, level, labels) ==
    LET u == Len(units) + 1 IN
    /\ caller[c].pc = "idle"
    /\ units' = Append(units,
           [message |-> message, level |-> level, labels |-> labels,
            pc |-> "start", thread |-> ThreadOf(c, u), caller |-> c,
            outcome |-> "-", err |-> <<>>])
    /\ calls' = Append(calls,
           [caller |-> c, op |-> op, message |-> message, labels |-> labels,
            dict |-> IF labels = None THEN <<>> ELSE dicts[labels]])
    /\ caller' = [caller EXCEPT ![c] = [pc |-> "called", unit |-> u,
                                        result |-> "-"]]
    /\ UNCHANGED <<default_labels, dicts, push_calls, local_log, local_out>>
    /\ UNCHANGED envVars

\* debug / info / warning / error (message, labels=None)
LogCall(c) ==
    /\ Len(units) < MaxCalls
    /\ \E op \in Ops, message \in Messages, labels \in LabelArgs :
        push_to_loki_async(c, op, message, LevelOf(op), labels)

\* the logging operation returns to its caller
Return(c) ==
    /\ caller[c].pc = "called"
    /\ CallerMayReturn(c)
    /\ caller' = [caller EXCEPT ![c] =
          [pc |-> "idle", unit |-> caller[c].unit,
           result |-> IF \E u \in DOMAIN units :
                            /\ units[u].thread = CallerThread(c)
                            /\ units[u].pc = "crashed"
                      THEN "raised" ELSE "None"]]
    /\ UNCHANGED <<default_labels, dicts, units, calls, push_calls, local_log,
                   local_out>>
    /\ UNCHANGED envVars

\* variant: the explicit labels are merged into self.default_labels in place
DefaultLabelsAfterUpdate(labels) ==
    IF labels = None THEN default_labels ELSE dicts[labels] @@ default_labels

\* self.default_labels once push_task has picked log_labels: the conditional
\* expression reads it and push_log only puts the mapping in its payload
DefaultLabelsAfter(labels) == default_labels

\* push_task enters push_log(message, level, log_labels)
TransportBegin(u) ==
    /\ units[u].pc = "start"
    /\ ThreadFree(u)
    /\ push_calls' = Append(push_calls,
           [unit |-> u, thread |-> units[u].thread,
            message |-> Closure(u).message, level |-> Closure(u).level,
            labels |-> LogLabels(Closure(u).labels)])
    /\ units' = [units EXCEPT ![u].pc = push_task_next("start", "-")]
    /\ default_labels' = DefaultLabelsAfter(Closure(u).labels)
    /\ UNCHANGED <<dicts, caller, calls, local_log, local_out>>
    /\ UNCHANGED envVars

\* the call of push_log made by unit u ends with the given outcome
TransportEndWith(u, outcome) ==
    /\ units[u].pc = "push"
    /\ units' = [units EXCEPT
          ![u].pc = push_task_next("push", outcome),
          ![u].outcome = outcome,
          ![u].err = IF outcome = "LokiClientError" THEN ErrorText ELSE <<>>]
    /\ UNCHANGED <<default_labels, dicts, caller, calls, push_calls, local_log,
                   local_out>>
    /\ UNCHANGED envVars

\* push_log returns True, raises LokiClientError, or raises something else
TransportEnd(u) == \E outcome \in Outcomes : TransportEndWith(u, outcome)

\* the numeric levels of the logging module, by upper-case name; a name the
\* module does not have gives the default of the getattr, logging.INFO
LoggingLevel(name) ==
    CASE name = <<"D","E","B","U","G">> -> 10
      [] name = <<"I","N","F","O">> -> 20
      [] name = <<"W","A","R","N","I","N","G">> -> 30
      [] name = <<"E","R","R","O","R">> -> 40
      [] name = <<"C","R","I","T","I","C","A","L">> -> 50
      [] OTHER -> 20

\* local_logger.setLevel(getattr(logging, config.LOG_LEVEL, logging.INFO))
LocalLoggerLevel == LoggingLevel(config.LOG_LEVEL)

\* the level at which each method of logging.Logger logs
MethodLevel(method) ==
    CASE method = debug -> 10
      [] method = info -> 20
      [] method = warning -> 30
      [] method = error -> 40
      [] method = <<"c","r","i","t","i","c","a","l">> -> 50

\* Logger.debug/info/warning/error/critical: the record reaches the console
\* handler when the level of the method is enabled on local_logger
Emit(out, entry) ==
    IF MethodLevel(entry.method) >= LocalLoggerLevel
    THEN Append(out, entry) ELSE out

\* except LokiClientError: local_logger.warning(...)
FallbackWarn(u) ==
    /\ units[u].pc = "warn"
    /\ local_log' = Append(local_log,
           [unit |-> u, method |-> warning, text |-> WarningText(units[u].err)])
    /\ local_out' = Emit(local_out,
           [unit |-> u, method |-> warning, text |-> WarningText(units[u].err)])
    /\ units' = [units EXCEPT ![u].pc = push_task_next("warn", "-")]
    /\ UNCHANGED <<default_labels, dicts, caller, calls, push_calls>>
    /\ UNCHANGED envVars

\* log_method = getattr(...); log_method(message)
FallbackWrite(u) ==
    /\ units[u].pc = "fallback"
    /\ local_log' = Append(local_log,
           [unit |-> u, method |-> log_method(Closure(u).level),
            text |-> Closure(u).message])
    /\ local_out' = Emit(local_out,
           [unit |-> u, method |-> log_method(Closure(u).level),
            text |-> Closure(u).message])
    /\ units' = [units EXCEPT ![u].pc = push_task_next("fallback", "-")]
    /\ UNCHANGED <<default_labels, dicts, caller, calls, push_calls>>
    /\ UNCHANGED envVars

Next ==
    \/ \E c \in Callers : LogCall(c)
    \/ \E c \in Callers : Return(c)
    \/ \E u \in DOMAIN units : TransportBegin(u)
    \/ \E u \in DOMAIN units : TransportEnd(u)
    \/ \E u \in DOMAIN units : FallbackWarn(u)
    \/ \E u \in DOMAIN units : FallbackWrite(u)

Spec == Init /\ [][Next]_vars

------------------------------------------------------------------------------
(* One caller using the four operations in sequence, with a transport that *)
(* accepts every record                                                     *)
(* (TestLokiLogger.test_multiple_log_levels_in_sequence)                    *)

SeqCaller == "c1"

SeqCalls ==
    << [op |-> debug,   message |-> <<"Debug msg">>],
       [op |-> info,    message |-> <<"Info msg">>],
       [op |-> warning, message |-> <<"Warning msg">>],
       [op |-> error,   message |-> <<"Error msg">>] >>

\* the next call of the sequence
SeqCall ==
    /\ Len(units) < Len(SeqCalls)
    /\ push_to_loki_async(SeqCaller, SeqCalls[Len(units) + 1].op,
                          SeqCalls[Len(units) + 1].message,
                          LevelOf(SeqCalls[Len(units) + 1].op), None)

NextSeq ==
    \/ SeqCall
    \/ Return(SeqCaller)
    \/ \E u \in DOMAIN units : TransportBegin(u)
    \/ \E u \in DOMAIN units : TransportEndWith(u, "ok")

SpecSeq == Init /\ [][NextSeq]_vars

------------------------------------------------------------------------------
(* One logging call under any configuration *)

\* the texts DEFAULT_LABEL is drawn from
ConfigTexts ==
    {DEFAULT_LABEL} \cup UNION {[1..k -> {"a", ":"}] : k \in 0..MaxTextLen}

\* the names LOG_LEVEL is drawn from; the last one is no level of logging
LogLevelNames ==
    {<<"D","E","B","U","G">>, <<"I","N","F","O">>,
     <<"W","A","R","N","I","N","G">>, <<"E","R","R","O","R">>,
     <<"C","R","I","T","I","C","A","L">>, <<"V","E","R","B","O","S","E">>}

Configs == [DEFAULT_LABEL : ConfigTexts, LOG_LEVEL : LogLevelNames]

\* the state after import of backend.logger under a configuration
InitAny ==
    /\ config \in Configs
    /\ default_labels = parse_default_label(config.DEFAULT_LABEL)
    /\ dicts = InitialDicts
    /\ caller = [c \in Callers |-> [pc |-> "idle", unit |-> 0, result |-> "-"]]
    /\ units = <<>>
    /\ calls = <<>>
    /\ push_calls = <<>>
    /\ local_log = <<>>
    /\ local_out = <<>>
    /\ alive = TRUE
    /\ pushed = <<>>
    /\ handled = <<>>
    /\ queried = <<>>

\* the only logging call of the run
OneCall ==
    /\ units = <<>>
    /\ \E op \in Ops, message \in Messages, labels \in LabelArgs :
          push_to_loki_async(SeqCaller, op, message, LevelOf(op), labels)

NextOne ==
    \/ OneCall
    \/ Return(SeqCaller)
    \/ \E u \in DOMAIN units : TransportBegin(u)
    \/ \E u \in DOMAIN units : TransportEnd(u)
    \/ \E u \in DOMAIN units : FallbackWarn(u)
    \/ \E u \in DOMAIN units : FallbackWrite(u)

SpecOne == InitAny /\ [][NextOne]_vars

------------------------------------------------------------------------------
(* _push_to_loki_async called directly, with any level text *)

GenericOp == <<"_push_to_loki_async">>

\* the level texts a direct caller passes: the four levels and one other
GenericLevels == {LevelOf(op) : op \in Ops} \cup {<<"T","R","A","C","E">>}

\* the only call of the run: logger._push_to_loki_async(message, level, labels)
GenericCall ==
    /\ units = <<>>
    /\ \E level \in GenericLevels, message \in Messages, labels \in LabelArgs :
          push_to_loki_async(SeqCaller, GenericOp, message, level, labels)

NextGeneric ==
    \/ GenericCall
    \/ Return(SeqCaller)
    \/ \E u \in DOMAIN units : TransportBegin(u)
    \/ \E u \in DOMAIN units : TransportEnd(u)
    \/ \E u \in DOMAIN units : FallbackWarn(u)
    \/ \E u \in DOMAIN units : FallbackWrite(u)

SpecGeneric == Init /\ [][NextGeneric]_vars

------------------------------------------------------------------------------
(* The life of the process: daemon threads end with it *)

\* variant: requests.post is called without a timeout
PostHasTimeoutNone == FALSE

\* requests.post(url, json=payload, headers=headers, timeout=10)
PostHasTimeout == TRUE

\* what push_log does once the request is over: return True or raise
\* LokiClientError
PostOutcomes == {"ok", "LokiClientError"}

\* a logging call made while the process runs
LiveCall ==
    /\ alive
    /\ Len(units) < MaxCalls
    /\ \E op \in Ops :
          push_to_loki_async(SeqCaller, op, <<"m">>, LevelOf(op), None)

\* the process exits: thread.daemon = True, so no unit takes another step
Exit ==
    /\ alive
    /\ alive' = FALSE
    /\ UNCHANGED <<default_labels, dicts, caller, units, calls, push_calls,
                   local_log, local_out, config, pushed, handled, queried>>

\* the steps of unit u, which it takes only while the process runs
LiveBegin(u) == alive /\ u \in DOMAIN units /\ TransportBegin(u)

LiveEnd(u) ==
    /\ alive
    /\ u \in DOMAIN units
    /\ \E outcome \in PostOutcomes : TransportEndWith(u, outcome)

LiveWarn(u) == alive /\ u \in DOMAIN units /\ FallbackWarn(u)

LiveWrite(u) == alive /\ u \in DOMAIN units /\ FallbackWrite(u)

NextLive ==
    \/ LiveCall
    \/ alive /\ Return(SeqCaller)
    \/ \E u \in 1..MaxCalls : LiveBegin(u)
    \/ \E u \in 1..MaxCalls : LiveEnd(u)
    \/ \E u \in 1..MaxCalls : LiveWarn(u)
    \/ \E u \in 1..MaxCalls : LiveWrite(u)
    \/ Exit

\* the steps of unit u that are bound to happen: those of its own code, and
\* the end of a request that has a timeout
UnitProgress(u) ==
    \/ LiveBegin(u)
    \/ PostHasTimeout /\ LiveEnd(u)
    \/ LiveWarn(u)
    \/ LiveWrite(u)

\* every started thread is scheduled while the process runs; nothing makes
\* the process exit or a caller call
FairLive == \A u \in 1..MaxCalls : WF_vars(UnitProgress(u))

SpecLive == Init /\ [][NextLive]_vars /\ FairLive

------------------------------------------------------------------------------
(* A caller that goes on using the dict it passed as labels *)

\* what the caller writes into its dict
MutatedDicts == {<<"e","n","v">> :> <<"x">>, <<>>}

\* between logging calls the caller changes a dict of its own in place; the
\* closure of push_task holds the same object (labels is passed by reference)
Mutate(c) ==
    /\ caller[c].pc = "idle"
    /\ \E ref \in DOMAIN dicts, new \in MutatedDicts :
          /\ dicts[ref] # new
          /\ dicts' = [dicts EXCEPT ![ref] = new]
    /\ UNCHANGED <<default_labels, caller, units, calls, push_calls, local_log,
                   local_out>>
    /\ UNCHANGED envVars

NextMutate ==
    \/ OneCall
    \/ Return(SeqCaller)
    \/ Mutate(SeqCaller)
    \/ \E u \in DOMAIN units : TransportBegin(u)
    \/ \E u \in DOMAIN units : TransportEnd(u)
    \/ \E u \in DOMAIN units : FallbackWarn(u)
    \/ \E u \in DOMAIN units : FallbackWrite(u)

SpecMutate == Init /\ [][NextMutate]_vars

------------------------------------------------------------------------------
(* push_log, run directly *)

DigitChars == <<"0","1","2","3","4","5","6","7","8","9">>

RECURSIVE Digits(_)
\* str(n) for an int n >= 0
Digits(n) ==
    IF n < 10 THEN <<DigitChars[n + 1]>>
    ELSE Digits(n \div 10) \o <<DigitChars[(n % 10) + 1]>>

\* int(datetime.now().timestamp() * 1e9) at the time of the call
Clocks == {0, 7, 1234}

\* the level texts push_log is given: the four levels and one other
PushLevels == {LevelOf(op) : op \in Ops} \cup {<<"T","R","A","C","E">>}

\* the HTTP status codes the push endpoint answers with
StatusCodes == {200, 204, 304, 400, 404, 500, 503}

\* what requests.post does: a response, or a RequestException of its own
Replies ==
    {[kind |-> "response", status |-> n] : n \in StatusCodes}
    \cup {[kind |-> "ConnectionError", status |-> 0],
          [kind |-> "Timeout", status |-> 0]}

\* Response.raise_for_status() raises HTTPError for 4xx and 5xx
RaisesForStatus(status) == 400 <= status /\ status < 600

\* variant: the line is written without the brackets
FormatLinePlain(level, message) == level \o <<":", " ">> \o message

\* log_line = f"[{level}] {message}"
FormatLine(level, message) == <<"[">> \o level \o <<"]", " ">> \o message

\* the label mapping push_log puts in the payload, when it gets that far
PushLabels(labels) ==
    IF labels # None THEN dicts[labels]
    ELSE SplitFirst(config.DEFAULT_LABEL, ":")[1]
            :> SplitFirst(config.DEFAULT_LABEL, ":")[2]

\* the request push_log sends
PushRequest(message, level, labels, clock) ==
    [url |-> "LOKI_URL/loki/api/v1/push",
     json |-> [streams |->
                 << [stream |-> PushLabels(labels),
                     values |-> << <<Digits(clock),
                                     FormatLine(level, message)>> >>] >>],
     headers |-> [ContentType |-> "application/json"],
     timeout |-> 10]

\* str(e) of the RequestException behind a reply
ReplyText(reply) ==
    IF reply.kind = "response" THEN <<"HTTPError ">> \o Digits(reply.status)
    ELSE <<reply.kind>>

\* push_log(message, level, labels) with the reply of the endpoint: the
\* requests it sent, and how it ended
push_log(message, level, labels, reply, clock) ==
    IF labels = None /\ ~Contains(config.DEFAULT_LABEL, ":")
    THEN \* key, value = ...split(':', 1) has one value to unpack
         [message |-> message, level |-> level, labels |-> labels,
          reply |-> reply, posts |-> <<>>, result |-> "ValueError",
          text |-> <<"not enough values to unpack">>]
    ELSE IF reply.kind = "response" /\ ~RaisesForStatus(reply.status)
    THEN [message |-> message, level |-> level, labels |-> labels,
          reply |-> reply,
          posts |-> <<PushRequest(message, level, labels, clock)>>,
          result |-> "True", text |-> <<>>]
    ELSE [message |-> message, level |-> level, labels |-> labels,
          reply |-> reply,
          posts |-> <<PushRequest(message, level, labels, clock)>>,
          result |-> "LokiClientError",
          text |-> <<"Failed to push log to Loki: ">> \o ReplyText(reply)]

\* one direct run of push_log
PushLog ==
    /\ pushed = <<>>
    /\ \E message \in Messages, level \in PushLevels, labels \in LabelArgs,
          reply \in Replies, clock \in Clocks :
          pushed' = Append(pushed, push_log(message, level, labels, reply, clock))
    /\ UNCHANGED <<default_labels, dicts, caller, units, calls, push_calls,
                   local_log, local_out, config, alive, handled, queried>>

NextPush == PushLog

SpecPush == Init /\ [][NextPush]_vars

\* push_log under any configuration
SpecPushAny == InitAny /\ [][NextPush]_vars

------------------------------------------------------------------------------
(* query_logs, run directly *)

\* the label texts query_logs is given
QueryLabels == UNION {[1..k -> {"k", ":"}] : k \in 0..MaxTextLen}

\* start_time and end_time: None, an empty text, a timestamp text
TimeArgs ==
    {[kind |-> "null", text |-> <<>>, fields |-> <<>>],
     [kind |-> "string", text |-> <<>>, fields |-> <<>>],
     [kind |-> "string", text |-> <<"t">>, fields |-> <<>>]}

\* variant: the label is split at its last ':'
LogQLSplitLast(label) ==
    IF Contains(label, ":")
    THEN <<"{">> \o SplitLast(label, ":")[1] \o <<"=", "\"">>
           \o SplitLast(label, ":")[2] \o <<"\"", "}">>
    ELSE <<"{">> \o label \o <<"}">>

\* logql_query: "app:main" becomes {app="main"}, "app" becomes {app}
LogQL(label) ==
    IF Contains(label, ":")
    THEN <<"{">> \o SplitFirst(label, ":")[1] \o <<"=", "\"">>
           \o SplitFirst(label, ":")[2] \o <<"\"", "}">>
    ELSE <<"{">> \o label \o <<"}">>

\* params: 'query', and 'start' / 'end' under 'if start_time:' / 'if end_time:'
QueryParams(label, start_time, end_time) ==
    ("query" :> LogQL(label))
      @@ (IF start_time.kind # "null" /\ start_time.text # <<>>
          THEN "start" :> start_time.text ELSE <<>>)
      @@ (IF end_time.kind # "null" /\ end_time.text # <<>>
          THEN "end" :> end_time.text ELSE <<>>)

\* the [timestamp_ns, log_line] pairs of a Loki stream
LokiValues ==
    {<< <<"1","5","0","0","0","0","0","0","0","0">>, "m1" >>,
     << <<"2","0","0","0","0","0","0","0","0","0">>, "m2" >>}

MaxValues == 2

MaxStreams == 2

\* the streams of a Loki answer: with or without a 'stream' key
LokiStreams ==
    [labels : {[present |-> FALSE, dict |-> <<>>],
               [present |-> TRUE, dict |-> (<<"a","p","p">> :> <<"m","a","i","n">>)]},
     values : UNION {[1..n -> LokiValues] : n \in 0..MaxValues}]

\* response.json(): no 'data', 'data' without 'result', or a list of streams
LokiAnswers ==
    {[data |-> FALSE, result |-> FALSE, streams |-> <<>>],
     [data |-> TRUE, result |-> FALSE, streams |-> <<>>]}
      \cup {[data |-> TRUE, result |-> TRUE, streams |-> ss] :
               ss \in UNION {[1..n -> LokiStreams] : n \in 0..MaxStreams}}

\* what requests.get does: a response with a JSON body, or an exception
QueryReplies ==
    {[kind |-> "response", status |-> 200, json |-> a] : a \in LokiAnswers}
      \cup {[kind |-> "response", status |-> 500,
             json |-> [data |-> FALSE, result |-> FALSE, streams |-> <<>>]],
            [kind |-> "ConnectionError", status |-> 0,
             json |-> [data |-> FALSE, result |-> FALSE, streams |-> <<>>]]}

\* datetime.fromtimestamp(int(timestamp_ns) / 1e9).isoformat(): the seconds
\* and the fraction of the timestamp
IsoOf(ns) == [sec |-> ns \div 1000000000, frac |-> ns % 1000000000]

RECURSIVE IntOf(_)
\* int(text) of a text of decimal digits
IntOf(text) ==
    IF text = <<>> THEN 0
    ELSE 10 * IntOf(SubSeq(text, 1, Len(text) - 1))
           + ((CHOOSE d \in 1..10 : DigitChars[d] = text[Len(text)]) - 1)

\* the entries of one stream, in the order of its values
EntriesOf(stream) ==
    [i \in 1..Len(stream.values) |->
       [timestamp |-> IsoOf(IntOf(stream.values[i][1])),
        message |-> stream.values[i][2],
        labels |-> stream.labels.dict]]

RECURSIVE FlattenReversed(_)
\* variant: the entries of a stream are put before those gathered so far
FlattenReversed(streams) ==
    IF streams = <<>> THEN <<>>
    ELSE FlattenReversed(Tail(streams)) \o EntriesOf(Head(streams))

RECURSIVE Flatten(_)
\* for stream in result: for value in values: logs.append(...)
Flatten(streams) ==
    IF streams = <<>> THEN <<>>
    ELSE EntriesOf(Head(streams)) \o Flatten(Tail(streams))

\* query_logs(label, start_time, end_time) with the reply of Loki: the request
\* it sent and how it ended
query_logs(label, start_time, end_time, reply) ==
    [label |-> label, start_time |-> start_time, end_time |-> end_time,
     reply |-> reply,
     gets |-> <<[url |-> "LOKI_URL/loki/api/v1/query_range",
                 params |-> QueryParams(label, start_time, end_time),
                 timeout |-> 10]>>,
     result |-> IF reply.kind = "response" /\ ~RaisesForStatus(reply.status)
                THEN "ok" ELSE "LokiClientError",
     logs |-> IF reply.kind = "response" /\ ~RaisesForStatus(reply.status)
                 /\ reply.json.data /\ reply.json.result
              THEN Flatten(reply.json.streams) ELSE <<>>]

\* one direct run of query_logs
QueryLogs ==
    /\ queried = <<>>
    /\ \E label \in QueryLabels, start_time \in TimeArgs, end_time \in TimeArgs,
          reply \in QueryReplies :
          queried' = Append(queried, query_logs(label, start_time, end_time, reply))
    /\ UNCHANGED <<default_labels, dicts, caller, units, calls, push_calls,
                   local_log, local_out, config, alive, pushed, handled>>

NextQuery == QueryLogs

SpecQuery == Init /\ [][NextQuery]_vars

------------------------------------------------------------------------------
(* The REST handlers of routes.py *)

MaxRequests == 2

\* JSON values, as request.get_json() hands them to the handler
JNull == [kind |-> "null", text |-> <<>>, fields |-> <<>>]

JString(t) == [kind |-> "string", text |-> t, fields |-> <<>>]

JNumber(t) == [kind |-> "number", text |-> t, fields |-> <<>>]

JArray(t) == [kind |-> "array", text |-> t, fields |-> <<>>]

JObject(f) == [kind |-> "object", text |-> <<>>, fields |-> f]

\* a request without a body, and one whose body is no JSON text
NoBody == [kind |-> "absent", text |-> <<>>, fields |-> <<>>]

BadBody == [kind |-> "invalid", text |-> <<"{">>, fields |-> <<>>]

\* the values a request puts under "label", and under the two time keys
LabelValues ==
    {JNull, JString(<<>>), JString(<<"a", ":", "b">>), JNumber(<<"5">>)}

TimeValues == {JString(<<"t">>)}

\* the JSON objects a request carries: each of the three keys is there or not
Objects ==
    { JObject(f) : f \in UNION {
        [K -> LabelValues \cup TimeValues] : K \in SUBSET {"label", "start_time", "end_time"}} }

ObjectBodies ==
    { b \in Objects :
        /\ "label" \in DOMAIN b.fields => b.fields["label"] \in LabelValues
        /\ "start_time" \in DOMAIN b.fields => b.fields["start_time"] \in TimeValues
        /\ "end_time" \in DOMAIN b.fields => b.fields["end_time"] \in TimeValues }

Bodies ==
    {NoBody, BadBody, JNull, JArray(<<>>), JArray(<<"1">>), JString(<<"x">>)}
       \cup ObjectBodies

\* bool(v) of Python
Truthy(v) ==
    CASE v.kind = "null" -> FALSE
      [] v.kind = "string" -> v.text # <<>>
      [] v.kind = "number" -> v.text # <<"0">>
      [] v.kind = "array" -> v.text # <<>>
      [] v.kind = "object" -> DOMAIN v.fields # {}

\* variant: a key that is absent reads as the empty string
GetOrEmpty(v, key) ==
    IF key \in DOMAIN v.fields THEN v.fields[key] ELSE JString(<<>>)

\* dict.get(key): the value, or None
Get(v, key) == IF key \in DOMAIN v.fields THEN v.fields[key] ELSE JNull

\* str(v) inside an f-string
Str(v) == IF v.kind = "null" THEN <<"None">> ELSE v.text

\* the lists a Loki client function returns
DataLists == {<<>>, <<"x">>, <<"x", "y">>, <<"y", "x">>, <<"x", "x">>}

\* how a call of get_labels / get_label_values / query_logs ends: a list,
\* LokiClientError, or an exception of another class
LokiResults ==
    {[kind |-> "ok", data |-> data] : data \in DataLists}
      \cup {[kind |-> "LokiClientError", data |-> <<>>],
            [kind |-> "other", data |-> <<>>]}

\* query_logs tests ':' in label first, a TypeError unless label is a str
QueryResults(label) ==
    IF label.kind = "string" THEN LokiResults
    ELSE {[kind |-> "other", data |-> <<>>]}

\* variant: the payload is put in the envelope in reverse order
create_success_responseReversed(data) ==
    [status |-> "success",
     data |-> [i \in 1..Len(data) |-> data[Len(data) + 1 - i]]]

create_success_response(data) == [status |-> "success", data |-> data]

create_error_response(message, code) ==
    [status |-> "error", message |-> message, code |-> code]

\* the calls a handler makes, in order: log calls and Loki client calls
LogEvent(op, message) ==
    [ev |-> "log", op |-> op, fn |-> "-", message |-> message, args |-> <<>>]

LokiEvent(fn, args) ==
    [ev |-> "loki", op |-> <<>>, fn |-> fn, message |-> <<>>, args |-> args]

\* one token of a JSON text
Token(t, v) == [t |-> t, v |-> v]

RECURSIVE JsonArray(_)
\* the elements of a list as JSON text, separated by commas
JsonArray(list) ==
    IF list = <<>> THEN <<>>
    ELSE IF Len(list) = 1 THEN <<Token("str", list[1])>>
    ELSE <<Token("str", list[1]), Token(",", "")>> \o JsonArray(Tail(list))

\* jsonify(body): the JSON text of the envelope, keys sorted
jsonify(body) ==
    IF body.status = "success"
    THEN <<Token("{", ""), Token("key", "data"), Token("[", "")>>
           \o JsonArray(body.data)
           \o <<Token("]", ""), Token(",", ""), Token("key", "status"),
                Token("str", body.status), Token("}", "")>>
    ELSE <<Token("{", ""), Token("key", "code"), Token("str", body.code),
           Token(",", ""), Token("key", "message"), Token("str", body.message),
           Token(",", ""), Token("key", "status"), Token("str", body.status),
           Token("}", "")>>

\* a handler that returned jsonify(body), http
Returned(body, http, trace, loki, exc, rejected) ==
    [response |-> [http |-> http, body |-> body, json |-> jsonify(body)],
     propagated |-> FALSE,
     trace |-> trace, loki |-> loki, exc |-> exc, rejected |-> rejected]

\* variant: a rejected request is logged as an error, after a first note
RejectedLoggedTwice(message, logged, check) ==
    Returned(create_error_response(message, "VALIDATION_ERROR"), 400,
             <<LogEvent(info, <<"Received log query request">>),
               LogEvent(error, logged)>>, "none", "None", check)

\* variant: the error envelope is returned without an HTTP status, so 200
RejectedWith200(message, logged, check) ==
    Returned(create_error_response(message, "VALIDATION_ERROR"), 200,
             <<LogEvent(warning, logged)>>, "none", "None", check)

\* the 400 answers of query_loki_logs
Rejected(message, logged, check) ==
    Returned(create_error_response(message, "VALIDATION_ERROR"), 400,
             <<LogEvent(warning, logged)>>, "none", "None", check)

\* except LokiClientError as e
OnLokiClientError(trace, message, logged) ==
    Returned(create_error_response(message, "LOKI_ERROR"), 500,
             trace \o <<LogEvent(error, logged \o ErrorText)>>,
             "LokiClientError", "LokiClientError", "none")

\* variant: the handler has no 'except Exception' clause
OnExceptionUncaught(trace, loki, exc, logged) ==
    [response |-> [http |-> 500, body |-> [status |-> "none"], json |-> <<>>],
     propagated |-> TRUE, trace |-> trace, loki |-> loki, exc |-> exc,
     rejected |-> "none"]

\* except Exception as e
OnException(trace, loki, exc, logged) ==
    Returned(create_error_response("Internal server error", "INTERNAL_ERROR"),
             500, trace \o <<LogEvent(error, logged \o <<exc>>)>>,
             loki, exc, "none")

\* variant: a success is not logged
AfterLokiQuietSuccess(trace, out, okLogged, lokiMessage, lokiLogged, otherLogged) ==
    CASE out.kind = "ok" ->
           Returned(create_success_response(out.data), 200, trace,
                    "ok", "None", "none")
      [] out.kind = "LokiClientError" ->
           OnLokiClientError(trace, lokiMessage, lokiLogged)
      [] out.kind = "other" ->
           OnException(trace, "other", "Exception", otherLogged)

\* the end of a handler whose Loki call ended with out
AfterLoki(trace, out, okLogged, lokiMessage, lokiLogged, otherLogged) ==
    CASE out.kind = "ok" ->
           Returned(create_success_response(out.data), 200,
                    trace \o <<LogEvent(info, okLogged)>>, "ok", "None", "none")
      [] out.kind = "LokiClientError" ->
           OnLokiClientError(trace, lokiMessage, lokiLogged)
      [] out.kind = "other" ->
           OnException(trace, "other", "Exception", otherLogged)

get_loki_labels(out) ==
    AfterLoki(<<LogEvent(info, <<"Fetching labels from Loki">>),
                LokiEvent("get_labels", <<>>)>>,
              out,
              <<"Successfully retrieved ">> \o Digits(Len(out.data))
                 \o <<" labels from Loki">>,
              "Failed to retrieve labels",
              <<"Failed to fetch labels from Loki: ">>,
              <<"Unexpected error in get_loki_labels: ">>)

get_loki_label_values(label_name, out) ==
    AfterLoki(<<LogEvent(info, <<"Fetching values for label '", label_name,
                                 "' from Loki">>),
                LokiEvent("get_label_values", <<label_name>>)>>,
              out,
              <<"Successfully retrieved ">> \o Digits(Len(out.data))
                 \o <<" values for label '", label_name, "' from Loki">>,
              "Failed to retrieve label values",
              <<"Failed to fetch label values from Loki: ">>,
              <<"Unexpected error in get_loki_label_values: ">>)

\* log_msg of query_loki_logs
QueryLogMessage(label, start_time, end_time) ==
    <<"Querying logs from Loki with label=">> \o Str(label)
      \o (IF Truthy(start_time) \/ Truthy(end_time)
          THEN <<", start_time=">> \o Str(start_time)
                 \o <<", end_time=">> \o Str(end_time)
          ELSE <<>>)

query_loki_logs(body, out) ==
    IF body.kind \in {"absent", "invalid"}
    THEN \* request.get_json() raises
         Rejected("Invalid JSON in request body",
                  <<"Failed to parse request body: ", "400 Bad Request">>, "json")
    ELSE IF ~Truthy(body)
    THEN Rejected("Request body is required",
                  <<"Received log query request with no body">>, "body")
    ELSE IF body.kind # "object"
    THEN \* request_data.get: AttributeError
         OnException(<<>>, "none", "AttributeError",
                     <<"Unexpected error in query_loki_logs: ">>)
    ELSE IF ~Truthy(Get(body, "label"))
    THEN Rejected("Label parameter is required",
                  <<"Received log query request without label parameter">>,
                  "label")
    ELSE AfterLoki(
           <<LogEvent(info, QueryLogMessage(Get(body, "label"),
                                            Get(body, "start_time"),
                                            Get(body, "end_time"))),
             LokiEvent("query_logs", <<Get(body, "label"),
                                       Get(body, "start_time"),
                                       Get(body, "end_time")>>)>>,
           out,
           <<"Successfully retrieved ">> \o Digits(Len(out.data))
              \o <<" log entries from Loki">>,
           "Failed to query logs",
           <<"Failed to query logs from Loki: ">>,
           <<"Unexpected error in query_loki_logs: ">>)

\* the log calls of a trace, in order
LogCallsOf(trace) == SelectSeq(trace, LAMBDA e : e.ev = "log")

\* the request has been served: its record, and the background units its
\* log calls have started (logger.info / warning / error, labels=None)
Served(handler, request, out, r) ==
    /\ handled' = Append(handled,
          [handler |-> handler, request |-> request,
           result |-> IF r.loki = "none" THEN <<>> ELSE out.data] @@ r)
    /\ units' = units \o
          [i \in 1..Len(LogCallsOf(r.trace)) |->
             [message |-> LogCallsOf(r.trace)[i].message,
              level |-> LevelOf(LogCallsOf(r.trace)[i].op), labels |-> None,
              pc |-> "start", thread |-> ThreadOf(SeqCaller, Len(units) + i),
              caller |-> SeqCaller, outcome |-> "-", err |-> <<>>]]
    /\ calls' = calls \o
          [i \in 1..Len(LogCallsOf(r.trace)) |->
             [caller |-> SeqCaller, op |-> LogCallsOf(r.trace)[i].op,
              message |-> LogCallsOf(r.trace)[i].message, labels |-> None,
              dict |-> <<>>]]
    /\ UNCHANGED <<default_labels, dicts, caller, push_calls, local_log,
                   local_out, config, alive, pushed, queried>>

\* GET /api/v1/loki/label
GetLokiLabels ==
    /\ Len(handled) < MaxRequests
    /\ \E out \in LokiResults :
          Served("get_loki_labels", JNull, out, get_loki_labels(out))

\* GET /api/v1/loki/label/<label_name>/values
GetLokiLabelValues ==
    /\ Len(handled) < MaxRequests
    /\ \E label_name \in {"app"}, out \in LokiResults :
          Served("get_loki_label_values", JString(<<label_name>>), out,
                 get_loki_label_values(label_name, out))

\* POST /api/v1/loki/logs
QueryLokiLogs ==
    /\ Len(handled) < MaxRequests
    /\ \E body \in Bodies :
          \E out \in QueryResults(Get(body, "label")) :
             Served("query_loki_logs", body, out, query_loki_logs(body, out))

NextRest == GetLokiLabels \/ GetLokiLabelValues \/ QueryLokiLogs

SpecRest == Init /\ [][NextRest]_vars

------------------------------------------------------------------------------
(* Observations on the histories *)

\* the invocations of push_log made for the call of unit u
AttemptsOf(u) == {i \in DOMAIN push_calls : push_calls[i].unit = u}

\* the writes to local_logger made for the call of unit u, in order
SinkOf(u) == SelectSeq(local_log, LAMBDA w : w.unit = u)

\* what the console handler of local_logger has written for unit u
OutputOf(u) == SelectSeq(local_out, LAMBDA w : w.unit = u)

\* {"app": "main"}
AppMain == <<"a","p","p">> :> <<"m","a","i","n">>

\* the label mapping a call asks for: its own dict as passed, or the default
ExpectedLabels(cl) == IF cl.labels = None THEN AppMain ELSE cl.dict

------------------------------------------------------------------------------
(* Properties *)

\* C1: each call of debug/info/warning/error results in exactly one
\* invocation of push_log (none before its unit has run, one afterwards),
\* and that invocation carries the call's exact message text and the
\* upper-case name of the operation called.
C1_OneAttemptPerCall ==
    /\ \A i \in DOMAIN push_calls : push_calls[i].unit \in DOMAIN calls
    /\ \A u \in DOMAIN calls :
          calls[u].op \in Ops =>
            /\ Cardinality(AttemptsOf(u)) =
                  IF units[u].pc = "start" THEN 0 ELSE 1
            /\ \A i \in AttemptsOf(u) :
                  /\ push_calls[i].message = calls[u].message
                  /\ push_calls[i].level = Upper(calls[u].op)

\* a finished warning("m") call whose single attempt carried WARNING and "m"
C1_Witness ==
    \E u \in DOMAIN calls :
        /\ calls[u].op = warning
        /\ calls[u].message = <<"m">>
        /\ units[u].pc = "done"
        /\ \E i \in AttemptsOf(u) :
              push_calls[i].level = <<"W","A","R","N","I","N","G">>

\* C2: while the transport call of a call's unit has not completed, the
\* caller's return from the logging operation is enabled, and no invocation
\* of push_log runs on a caller's thread.
C2_ReturnNotBlockedByTransport ==
    /\ \A c \in Callers :
          (caller[c].pc = "called"
             /\ units[caller[c].unit].pc \in {"start", "push"})
          => ENABLED Return(c)
    /\ \A i \in DOMAIN push_calls : \A c \in Callers :
          push_calls[i].thread # CallerThread(c)

\* a caller has returned while the transport call of its unit is in progress
C2_Witness ==
    \E c \in Callers :
        /\ caller[c].pc = "idle"
        /\ caller[c].result = "None"
        /\ caller[c].unit > 0
        /\ units[caller[c].unit].pc = "push"

\* C3: no retry: at most one invocation of push_log per call; a success is
\* never followed by a fallback write, a delivery error is followed by the
\* fallback and by no second attempt, and a unit that completes has had
\* exactly one of the two outcomes.
C3_NoRetryOneOutcome ==
    \A u \in DOMAIN units :
        /\ Cardinality(AttemptsOf(u)) <= 1
        /\ units[u].outcome = "ok" =>
              /\ SinkOf(u) = <<>>
              /\ units[u].pc = "done"
        /\ units[u].outcome = "LokiClientError" =>
              /\ Cardinality(AttemptsOf(u)) = 1
              /\ units[u].pc \in {"warn", "fallback", "done"}
              /\ units[u].pc = "done" =>
                    /\ SinkOf(u) # <<>>
                    /\ SinkOf(u)[Len(SinkOf(u))].text = calls[u].message
        /\ units[u].pc = "done" =>
              units[u].outcome \in {"ok", "LokiClientError"}

\* one call ended in success without fallback, another in failure with it
C3_Witness ==
    \E u, v \in DOMAIN units :
        /\ units[u].pc = "done" /\ units[u].outcome = "ok"
        /\ SinkOf(u) = <<>>
        /\ units[v].pc = "done" /\ units[v].outcome = "LokiClientError"
        /\ Len(SinkOf(v)) = 2

\* C4: for a call whose transport raised LokiClientError the fallback sink
\* receives exactly two writes: first a warning carrying the error's text,
\* then the original message through the method of the call's own severity.
C4_FallbackWarningThenOriginal ==
    \A u \in DOMAIN units :
        units[u].outcome = "LokiClientError" =>
            /\ units[u].err # <<>>
            /\ Len(SinkOf(u)) =
                  (CASE units[u].pc = "warn" -> 0
                     [] units[u].pc = "fallback" -> 1
                     [] OTHER -> 2)
            /\ Len(SinkOf(u)) >= 1 =>
                  /\ SinkOf(u)[1].method = warning
                  /\ SinkOf(u)[1].text =
                       <<"Failed to push log to Loki, logged locally: ">>
                         \o units[u].err
            /\ Len(SinkOf(u)) = 2 =>
                  /\ SinkOf(u)[2].method = calls[u].op
                  /\ SinkOf(u)[2].text = calls[u].message

\* a debug("m") call whose transport failed has had both writes
C4_Witness ==
    \E u \in DOMAIN units :
        /\ calls[u].op = debug
        /\ calls[u].message = <<"m">>
        /\ units[u].outcome = "LokiClientError"
        /\ units[u].pc = "done"
        /\ Len(SinkOf(u)) = 2

\* C5: a logging call never returns an error: every return is a normal
\* return of None, every failure of the transport happens on a thread
\* other than the caller's, and a delivery error never ends the unit
\* uncaught.
C5_CallerNeverSeesError ==
    /\ \A c \in Callers : caller[c].result \in {"-", "None"}
    /\ \A u \in DOMAIN units :
          /\ units[u].outcome \in {"LokiClientError", "other"} =>
                units[u].thread # CallerThread(units[u].caller)
          /\ units[u].outcome = "LokiClientError" => units[u].pc # "crashed"

\* both callers returned None, one after a delivery error of its unit and
\* one after an unexpected failure of its unit
C5_Witness ==
    \E c, d \in Callers :
        /\ caller[c].pc = "idle" /\ caller[c].result = "None"
        /\ caller[d].pc = "idle" /\ caller[d].result = "None"
        /\ caller[c].unit > 0 /\ caller[d].unit > 0
        /\ units[caller[c].unit].outcome = "LokiClientError"
        /\ units[caller[d].unit].outcome = "other"

C7_LabelsNeverEmpty ==
    \A i \in DOMAIN push_calls : DOMAIN push_calls[i].labels # {}

\* C8: with calls issued from several threads, the invocations of push_log
\* are exactly one per unit that has run, each with the message, level and
\* labels of its own call, and a fallback write carries its own call's
\* message.
C8_ConcurrentCallsIndependent ==
    /\ Len(push_calls) = Cardinality({u \in DOMAIN units : units[u].pc # "start"})
    /\ \A i, j \in DOMAIN push_calls :
          i # j => push_calls[i].unit # push_calls[j].unit
    /\ \A i \in DOMAIN push_calls :
          LET cl == calls[push_calls[i].unit] IN
          <<push_calls[i].message, push_calls[i].level, push_calls[i].labels>>
            = <<cl.message, Upper(cl.op), ExpectedLabels(cl)>>
    /\ \A k \in DOMAIN local_log :
          local_log[k].method # warning =>
              local_log[k].text = calls[local_log[k].unit].message

\* two calls are in progress at once, with different records, and both
\* records have reached push_log
C8_Witness ==
    /\ \A c \in Callers : caller[c].pc = "called"
    /\ Len(push_calls) = 2
    /\ push_calls[1].message # push_calls[2].message
    /\ push_calls[1].level # push_calls[2].level
    /\ push_calls[1].labels # push_calls[2].labels

C11_ResolverSplitsAtFirstColon ==
    /\ Cardinality(DOMAIN default_labels) = 1
    /\ \A k \in DOMAIN default_labels :
          IF \E i \in 1..Len(config.DEFAULT_LABEL) :
                 config.DEFAULT_LABEL[i] = ":"
          THEN /\ config.DEFAULT_LABEL = k \o <<":">> \o default_labels[k]
               /\ \A i \in 1..Len(k) : k[i] # ":"
          ELSE /\ k = <<"l","a","b","e","l">>
               /\ default_labels[k] = config.DEFAULT_LABEL
    /\ config.DEFAULT_LABEL = <<"a","p","p",":","m","a","i","n">>
          => default_labels = AppMain

\* under the configured text "a::" a record went out labelled {"a": ":"}
C11_Witness ==
    /\ config.DEFAULT_LABEL = <<"a", ":", ":">>
    /\ \E i \in DOMAIN push_calls :
          push_calls[i].labels = (<<"a">> :> <<":">>)

\* C12: push_log returns True exactly when the endpoint answers with a
\* status from 200 to 299, and otherwise (connection failure, timeout, any
\* other status) raises LokiClientError with a cause text.
C12_TrueExactlyOn2xx ==
    \A i \in DOMAIN pushed :
        /\ pushed[i].result = "True" <=>
              (pushed[i].reply.kind = "response"
                 /\ 200 <= pushed[i].reply.status
                 /\ pushed[i].reply.status <= 299)
        /\ pushed[i].result # "True" =>
              (pushed[i].result = "LokiClientError" /\ pushed[i].text # <<>>)

\* C13: a run of push_log sends one POST whose body holds one stream, whose
\* descriptor is the label mapping and whose values hold one entry of two
\* elements: a text of decimal digits only, then exactly "[L] M".
C13_PayloadOneStreamOneLine ==
    \A i \in DOMAIN pushed :
        /\ Len(pushed[i].posts) = 1
        /\ LET body == pushed[i].posts[1].json IN
           /\ DOMAIN body = {"streams"}
           /\ Len(body.streams) = 1
           /\ body.streams[1].stream =
                 (IF pushed[i].labels = None THEN AppMain
                  ELSE InitialDicts[pushed[i].labels])
           /\ Len(body.streams[1].values) = 1
           /\ Len(body.streams[1].values[1]) = 2
           /\ body.streams[1].values[1][1] # <<>>
           /\ \A k \in DOMAIN body.streams[1].values[1][1] :
                 body.streams[1].values[1][1][k]
                   \in {"0","1","2","3","4","5","6","7","8","9"}
           /\ body.streams[1].values[1][2] =
                 <<"[">> \o pushed[i].level \o <<"]", " ">>
                   \o pushed[i].message

\* WARNING and "m" with the mapping {"env": "t"} were pushed at clock 1234
C13_Witness ==
    \E i \in DOMAIN pushed :
        /\ pushed[i].level = <<"W","A","R","N","I","N","G">>
        /\ pushed[i].message = <<"m">>
        /\ pushed[i].labels = "d1"
        /\ Len(pushed[i].posts) = 1
        /\ pushed[i].posts[1].json.streams[1].values[1][1]
              = <<"1","2","3","4">>

\* C14: under every LOG_LEVEL, once the unit of a debug/info/warning/error
\* call has handled a transport failure, the local output holds the original
\* message of the call and one warning entry about the delivery failure.
C14_FailedMessageInLocalOutput ==
    \A u \in DOMAIN units :
        (calls[u].op \in Ops /\ units[u].pc = "done"
            /\ units[u].outcome = "LokiClientError") =>
        /\ \E i \in DOMAIN OutputOf(u) :
              /\ OutputOf(u)[i].text = calls[u].message
              /\ OutputOf(u)[i].method = calls[u].op
        /\ Cardinality({i \in DOMAIN OutputOf(u) :
              OutputOf(u)[i].text = WarningText(units[u].err)}) = 1

\* C15: a direct call of _push_to_loki_async with a level other than DEBUG,
\* INFO, WARNING, ERROR schedules no background unit, sends nothing, writes
\* nothing locally under another severity, and raises to its caller.
C15_UnknownLevelFailsFast ==
    /\ \A u \in DOMAIN units :
          units[u].level \in {LevelOf(op) : op \in Ops}
    /\ \A i \in DOMAIN push_calls :
          push_calls[i].level \in {LevelOf(op) : op \in Ops}
    /\ \A i \in DOMAIN local_log :
          \/ local_log[i].text = WarningText(units[local_log[i].unit].err)
          \/ local_log[i].method = Lower(units[local_log[i].unit].level)
    /\ \A i \in DOMAIN calls :
          (calls[i].op = GenericOp /\ caller[calls[i].caller].pc = "idle"
             /\ Closure(i).level \notin {LevelOf(op) : op \in Ops})
          => caller[calls[i].caller].result = "raised"

\* C16: in every state, whatever calls were made, with or without labels,
\* with whatever transport outcomes and in whatever interleaving,
\* default_labels is the mapping resolved from DEFAULT_LABEL at construction.
C16_DefaultLabelsReadOnly ==
    default_labels = parse_default_label(config.DEFAULT_LABEL)

\* a call with explicit labels has ended in the fallback, a call without
\* has been delivered, and default_labels is still {"app": "main"}
C16_Witness ==
    /\ default_labels = AppMain
    /\ \E u, v \in DOMAIN units :
          /\ units[u].labels = "d1" /\ units[u].pc = "done"
          /\ units[u].outcome = "LokiClientError"
          /\ units[v].labels = None /\ units[v].pc = "done"
          /\ units[v].outcome = "ok"

C18_HandlersAlwaysRespond ==
    \A i \in DOMAIN handled :
        /\ ~handled[i].propagated
        /\ handled[i].response.http \in {200, 400, 500}
        /\ handled[i].response.body.status \in {"success", "error"}
        /\ handled[i].loki = "ok" =>
              /\ handled[i].response.http = 200
              /\ handled[i].response.body.status = "success"
        /\ handled[i].exc = "LokiClientError" =>
              /\ handled[i].response.http = 500
              /\ handled[i].response.body.status = "error"
              /\ handled[i].response.body.code = "LOKI_ERROR"
        /\ handled[i].exc \notin {"None", "LokiClientError"} =>
              /\ handled[i].response.http = 500
              /\ handled[i].response.body.status = "error"
              /\ handled[i].response.body.code = "INTERNAL_ERROR"
              /\ handled[i].response.body.message = "Internal server error"
        /\ handled[i].rejected # "none" =>
              /\ handled[i].response.http = 400
              /\ handled[i].response.body.status = "error"

\* a GET of the labels met an exception that is no LokiClientError and was
\* answered 500 INTERNAL_ERROR; a log query was rejected with 400
C18_Witness ==
    \E i, j \in DOMAIN handled :
        /\ handled[i].handler = "get_loki_labels"
        /\ handled[i].loki = "other"
        /\ handled[i].response.http = 500
        /\ handled[i].response.body.code = "INTERNAL_ERROR"
        /\ handled[j].handler = "query_loki_logs"
        /\ handled[j].rejected = "label"
        /\ handled[j].response.http = 400

\* response.get_json()['data'] on the client's side: the elements of the
\* array of a JSON text
DataOf(json) ==
    LET open == CHOOSE i \in DOMAIN json : json[i].t = "["
        close == CHOOSE i \in DOMAIN json : json[i].t = "]"
        inner == SubSeq(json, open + 1, close - 1)
        strs == SelectSeq(inner, LAMBDA tok : tok.t = "str")
    IN [i \in 1..Len(strs) |-> strs[i].v]

\* the calls of the Loki client in a trace, in order
LokiCallsOf(trace) == SelectSeq(trace, LAMBDA e : e.ev = "loki")

\* the request got past the validation checks of its handler: the two GET
\* handlers have none, a log query needs an object with a non-empty label
PassesValidation(h) ==
    h.handler = "query_loki_logs" =>
        /\ h.request.kind = "object"
        /\ "label" \in DOMAIN h.request.fields
        /\ Truthy(h.request.fields["label"])

\* the request carries no label, or an empty one
LabelMissingOrEmpty(body) == ~Truthy(Get(body, "label"))

\* C19: a POST /api/v1/loki/logs whose body has no label, or an empty one,
\* is answered with HTTP 400, status 'error' and a message, whatever the
\* body and the start_time / end_time in it.
C19_MissingLabelGives400 ==
    \A i \in DOMAIN handled :
        (handled[i].handler = "query_loki_logs"
           /\ LabelMissingOrEmpty(handled[i].request)) =>
        /\ handled[i].response.http = 400
        /\ handled[i].response.body.status = "error"
        /\ handled[i].response.body.message # ""

\* C20: query_loki_logs reports the first failing check with HTTP 400 and
\* code 'VALIDATION_ERROR': no parsable body gives 'Invalid JSON in request
\* body', a parsed empty body gives 'Request body is required', a non-empty
\* body without a non-empty label gives 'Label parameter is required'.
C20_ValidationOrder ==
    \A i \in DOMAIN handled :
        (handled[i].handler = "query_loki_logs"
           /\ LabelMissingOrEmpty(handled[i].request)) =>
        /\ handled[i].response.http = 400
        /\ handled[i].response.body.code = "VALIDATION_ERROR"
        /\ handled[i].response.body.message =
              (IF handled[i].request.kind \in {"absent", "invalid"}
               THEN "Invalid JSON in request body"
               ELSE IF ~Truthy(handled[i].request)
               THEN "Request body is required"
               ELSE "Label parameter is required")

\* C21: whenever get_labels or query_logs returned a list, the 'data' of the
\* handler's success response is that list, same elements in the same order,
\* in the envelope and in the JSON text sent.
C21_DataRoundTrip ==
    \A i \in DOMAIN handled :
        (handled[i].handler \in {"get_loki_labels", "query_loki_logs"}
           /\ handled[i].loki = "ok") =>
        /\ handled[i].response.body.status = "success"
        /\ handled[i].response.body.data = handled[i].result
        /\ DataOf(handled[i].response.json) = handled[i].result

\* get_labels returned <<"y", "x">> and query_logs returned <<"x", "x">>,
\* and both were answered with status 'success'
C21_Witness ==
    \E i, j \in DOMAIN handled :
        /\ handled[i].handler = "get_loki_labels"
        /\ handled[i].loki = "ok" /\ handled[i].result = <<"y", "x">>
        /\ handled[i].response.body.status = "success"
        /\ handled[j].handler = "query_loki_logs"
        /\ handled[j].loki = "ok" /\ handled[j].result = <<"x", "x">>
        /\ handled[j].response.body.status = "success"

\* C22: a log query whose body has a non-empty label makes exactly one call
\* of query_logs, with the label, start_time and end_time of the body, None
\* standing for a time that the body does not have.
C22_QueryLogsCalledWithBodyValues ==
    \A i \in DOMAIN handled :
        (/\ handled[i].handler = "query_loki_logs"
         /\ handled[i].request.kind = "object"
         /\ "label" \in DOMAIN handled[i].request.fields
         /\ Truthy(handled[i].request.fields["label"])) =>
        /\ Len(LokiCallsOf(handled[i].trace)) = 1
        /\ LokiCallsOf(handled[i].trace)[1].fn = "query_logs"
        /\ LokiCallsOf(handled[i].trace)[1].args =
              << handled[i].request.fields["label"],
                 IF "start_time" \in DOMAIN handled[i].request.fields
                 THEN handled[i].request.fields["start_time"] ELSE JNull,
                 IF "end_time" \in DOMAIN handled[i].request.fields
                 THEN handled[i].request.fields["end_time"] ELSE JNull >>

\* a query with a label and a start_time but no end_time reached query_logs
\* with None as its third argument
C22_Witness ==
    \E i \in DOMAIN handled :
        /\ handled[i].handler = "query_loki_logs"
        /\ handled[i].request.kind = "object"
        /\ DOMAIN handled[i].request.fields = {"label", "start_time"}
        /\ Len(LokiCallsOf(handled[i].trace)) = 1
        /\ LokiCallsOf(handled[i].trace)[1].args =
              <<JString(<<"a", ":", "b">>), JString(<<"t">>), JNull>>

\* C23: every response body of a handler is an object whose 'status' is
\* 'success' or 'error'; a 'success' body has 'data', an 'error' body has
\* 'message' and 'code'; the HTTP status is 200 exactly when 'status' is
\* 'success'.
C23_ResponseEnvelope ==
    \A i \in DOMAIN handled :
        LET body == handled[i].response.body IN
        /\ "status" \in DOMAIN body
        /\ body.status \in {"success", "error"}
        /\ body.status = "success" => "data" \in DOMAIN body
        /\ body.status = "error" => {"message", "code"} \subseteq DOMAIN body
        /\ handled[i].response.http = 200 <=> body.status = "success"
        /\ handled[i].response.json # <<>>
        /\ handled[i].response.json[1].t = "{"

\* one request was answered with a 'success' body and one, rejected by a
\* validation check, with an 'error' body
C23_Witness ==
    \E i, j \in DOMAIN handled :
        /\ handled[i].response.body.status = "success"
        /\ handled[i].response.http = 200
        /\ handled[j].response.body.status = "error"
        /\ handled[j].rejected = "body"
        /\ handled[j].response.http = 400

\* C24: query_logs sends the query {k="v"} for a label "k:v" split at its
\* first ':', and {label} for a label without ':'; 'start' is among the
\* parameters exactly when a start_time was given and 'end' exactly when an
\* end_time was given, each with the value given.
C24_QueryRequestFromArguments ==
    \A i \in DOMAIN queried :
        LET q == queried[i]
            params == q.gets[1].params
            colon == {n \in DOMAIN q.label : q.label[n] = ":"}
        IN
        /\ Len(q.gets) = 1
        /\ IF colon = {}
           THEN params["query"] = <<"{">> \o q.label \o <<"}">>
           ELSE \E n \in colon :
                  /\ \A m \in colon : n <= m
                  /\ params["query"] =
                        <<"{">> \o SubSeq(q.label, 1, n - 1) \o <<"=", "\"">>
                          \o SubSeq(q.label, n + 1, Len(q.label))
                          \o <<"\"", "}">>
        /\ "start" \in DOMAIN params <=> Truthy(q.start_time)
        /\ "start" \in DOMAIN params => params["start"] = q.start_time.text
        /\ "end" \in DOMAIN params <=> Truthy(q.end_time)
        /\ "end" \in DOMAIN params => params["end"] = q.end_time.text
        /\ DOMAIN params \subseteq {"query", "start", "end"}

\* the label "k::" went out as {k=":"} with a start and without an end
C24_Witness ==
    \E i \in DOMAIN queried :
        /\ queried[i].label = <<"k", ":", ":">>
        /\ queried[i].gets[1].params["query"]
              = <<"{", "k", "=", "\"", ":", "\"", "}">>
        /\ DOMAIN queried[i].gets[1].params = {"query", "start"}
        /\ queried[i].gets[1].params["start"] = <<"t">>

\* the number of values in the first n streams
RECURSIVE ValuesBefore(_, _)
ValuesBefore(streams, n) ==
    IF n = 0 THEN 0
    ELSE ValuesBefore(streams, n - 1) + Len(streams[n].values)

\* C25: query_logs returns one entry per value of every stream, in stream
\* order and then value order, each with the message of its value and the
\* labels of its stream, so as many entries as the streams have values; an
\* answer without 'data' or without 'data.result' gives the empty list and
\* no error.
C25_FlattenInStreamOrder ==
    \A i \in DOMAIN queried :
        LET q == queried[i]
            streams == q.reply.json.streams
        IN
        (q.reply.kind = "response" /\ q.reply.status = 200) =>
        /\ q.result = "ok"
        /\ ~(q.reply.json.data /\ q.reply.json.result) => q.logs = <<>>
        /\ (q.reply.json.data /\ q.reply.json.result) =>
              /\ Len(q.logs) = ValuesBefore(streams, Len(streams))
              /\ \A s \in DOMAIN streams : \A v \in DOMAIN streams[s].values :
                    /\ q.logs[ValuesBefore(streams, s - 1) + v].message
                          = streams[s].values[v][2]
                    /\ q.logs[ValuesBefore(streams, s - 1) + v].labels
                          = streams[s].labels.dict

\* two streams, the first with the values m2, m1 and labels, the second with
\* m1 and no labels, came back as the three entries m2, m1, m1
C25_Witness ==
    \E i \in DOMAIN queried :
        /\ queried[i].result = "ok"
        /\ Len(queried[i].reply.json.streams) = 2
        /\ Len(queried[i].logs) = 3
        /\ queried[i].logs[1].message = "m2"
        /\ queried[i].logs[2].message = "m1"
        /\ queried[i].logs[3].message = "m1"
        /\ queried[i].logs[1].labels # <<>>
        /\ queried[i].logs[3].labels = <<>>

\* C26: only LokiClientError starts the fallback: a unit whose transport call
\* failed in any other way is over, has written neither a warning nor the
\* message to the local logger, and its logging call returned to its caller
\* without an error.
C26_OnlyDeliveryErrorFallsBack ==
    /\ \A u \in DOMAIN units :
          units[u].outcome = "other" =>
            /\ units[u].pc = "crashed"
            /\ SinkOf(u) = <<>>
            /\ OutputOf(u) = <<>>
    /\ \A u \in DOMAIN units :
          SinkOf(u) # <<>> => units[u].outcome = "LokiClientError"
    /\ \A c \in Callers : caller[c].result # "raised"

\* the transport call of a unit failed with another exception after the
\* logging call had returned None to its caller
C26_Witness ==
    \E u \in DOMAIN units :
        /\ units[u].outcome = "other"
        /\ units[u].pc = "crashed"
        /\ caller[units[u].caller].pc = "idle"
        /\ caller[units[u].caller].unit = u
        /\ caller[units[u].caller].result = "None"

\* C27: the label set handed to the transport for a call with explicit labels
\* is the mapping as it was when the logging call was made, whatever the
\* caller does to that mapping afterwards.
C27_LabelsFixedAtCallTime ==
    \A i \in DOMAIN push_calls :
        calls[push_calls[i].unit].labels # None =>
            push_calls[i].labels = calls[push_calls[i].unit].dict

\* C28: for every DEFAULT_LABEL text, with or without ':', push_log called
\* without labels does not fail on the text and sends the label mapping that
\* LokiLogger resolved from it at construction.
C28_DefaultLabelsAgree ==
    \A i \in DOMAIN pushed :
        pushed[i].labels = None =>
            /\ pushed[i].result # "ValueError"
            /\ Len(pushed[i].posts) = 1
            /\ pushed[i].posts[1].json.streams[1].stream = default_labels

\* C29: a log query answered with HTTP 400 made no call of query_logs and
\* exactly one log call, a warning.
C29_RejectionLogsOneWarning ==
    \A i \in DOMAIN handled :
        (handled[i].handler = "query_loki_logs"
           /\ handled[i].response.http = 400) =>
        /\ LokiCallsOf(handled[i].trace) = <<>>
        /\ Len(LogCallsOf(handled[i].trace)) = 1
        /\ LogCallsOf(handled[i].trace)[1].op = warning

\* a request without a parsable body and one without a label were both
\* rejected
C29_Witness ==
    \E i, j \in DOMAIN handled :
        /\ handled[i].rejected = "json" /\ handled[i].response.http = 400
        /\ handled[j].rejected = "label" /\ handled[j].response.http = 400
        /\ Len(handled[i].trace) = 1 /\ Len(handled[j].trace) = 1

\* C30: a request that passes validation makes, in this order, one info log
\* call, the call of the Loki client, and one more log call: info when the
\* client returned, error when it raised LokiClientError or anything else.
C30_LogCallsAroundLokiCall ==
    \A i \in DOMAIN handled :
        PassesValidation(handled[i]) =>
        /\ Len(handled[i].trace) = 3
        /\ handled[i].trace[1].ev = "log" /\ handled[i].trace[1].op = info
        /\ handled[i].trace[2].ev = "loki"
        /\ handled[i].trace[3].ev = "log"
        /\ handled[i].trace[3].op =
              (IF handled[i].loki = "ok" THEN info ELSE error)
        /\ handled[i].loki \in {"ok", "LokiClientError", "other"}

\* a GET of label values succeeded and a log query met an exception that is
\* no LokiClientError; each made its two log calls around the Loki call
C30_Witness ==
    \E i, j \in DOMAIN handled :
        /\ handled[i].handler = "get_loki_label_values"
        /\ handled[i].loki = "ok"
        /\ handled[i].trace[3].op = info
        /\ handled[j].handler = "query_loki_logs"
        /\ handled[j].loki = "other"
        /\ handled[j].trace[2].fn = "query_logs"
        /\ handled[j].trace[3].op = error

====
